---- MODULE Spec2Model ----
(***************************************************************************)
(* A model of gusty's schematic assembly engine (gusty/building.py):       *)
(* create_schematic and the GustyBuilder methods that resolve metadata,    *)
(* build containers, read specs, create tasks and wire dependencies.       *)
(*                                                                         *)
(* Names (directory names, file names, task ids) are sequences of atoms.   *)
(* The atoms "_" and "." are the characters the code tests for; every      *)
(* other atom stands for a run of other characters, and a file name ends   *)
(* with its extension atom (".yml").  A path is the sequence of the names  *)
(* of its components; the empty path stands for Python's None.             *)
(***************************************************************************)
EXTENDS Integers, Sequences, FiniteSets, TLC

VARIABLES
    fs,                  \* the directory tree on disk: dag_dir, dirs, files
    airflow_version,     \* gusty.importing.airflow_version
    kwargs,              \* the keyword arguments given to GustyBuilder(...)
    phase,               \* the pass the driver is in: "new", then a method's name
    done,                \* the levels the current pass has handled, in call order
    schematic,           \* self.schematic: level id -> level record
    order,               \* the key order of self.schematic (a Python dict)
    levels,              \* self.levels
    dag_defaults,        \* self.dag_defaults
    task_group_defaults, \* self.task_group_defaults
    wait_for_defaults,   \* self.wait_for_defaults
    wait_for_tasks,      \* self.wait_for_tasks
    all_tasks,           \* self.all_tasks: task_id -> task
    edges,               \* the precedes-edges made by >>, as <<upstream, downstream>>
    next_uid,            \* identity of the next task an operator call constructs
    raised               \* the exception the last call raised, or "none"

vars == <<fs, airflow_version, kwargs, phase, done, schematic, order, levels,
          dag_defaults, task_group_defaults, wait_for_defaults, wait_for_tasks,
          all_tasks, edges, next_uid, raised>>

-----------------------------------------------------------------------------
(* Python values *)

None == <<>>

EmptyDict == [k \in {} |-> TRUE]

\* d1.update(d2) on a copy of d1
Update(d1, d2) ==
    [k \in DOMAIN d1 \cup DOMAIN d2 |-> IF k \in DOMAIN d2 THEN d2[k] ELSE d1[k]]

\* {k: v for k, v in d.items() if k in keys}
Only(d, keys) == [k \in DOMAIN d \cap keys |-> d[k]]

\* {k: v for k, v in d.items() if k not in keys}
Without(d, keys) == [k \in DOMAIN d \ keys |-> d[k]]

\* d.get(k, default)
Get(d, k, default) == IF k \in DOMAIN d THEN d[k] ELSE default

Range(s) == {s[i] : i \in DOMAIN s}

\* a Python list, and a bare dict given where a list is expected, as the
\* isinstance checks see them
PyList(items) == [type |-> "list", items |-> items]
PyDict(item) == [type |-> "dict", items |-> <<item>>]

\* one entry of an external_dependencies list: {dag_id: task_id}, or a bare string
ExtDict(dag, task) == [type |-> "dict", dag |-> dag, task |-> task]
ExtStr(s) == [type |-> "str", dag |-> s, task |-> None]

-----------------------------------------------------------------------------
(* os.path *)

basename(p) == IF Len(p) = 0 THEN <<>> ELSE p[Len(p)]

dirname(p) == IF Len(p) = 0 THEN <<>> ELSE SubSeq(p, 1, Len(p) - 1)

\* str.startswith(("_", "."))
startswith_hidden(name) == Len(name) > 0 /\ name[1] \in {"_", "."}

\* os.path.join(dir, file)
join(dir, file) == Append(dir, file)

\* x.count(os.sep) of an absolute path: one separator per component
count_sep(p) == Len(p)

IsPrefix(p, q) == Len(p) <= Len(q) /\ SubSeq(q, 1, Len(p)) = p

-----------------------------------------------------------------------------
(* Files *)

METADATA_yml == <<"METADATA", ".yml">>

\* gusty.parsing.default_parsers.keys()
default_parsers == {".yml", ".yaml", ".py", ".ipynb", ".sql", ".Rmd"}

\* file.endswith(ext) for an extension of the parser registry
endswith_parser(file, parsers) == Len(file) > 0 /\ file[Len(file)] \in parsers

\* the names os.walk lists in a directory, in listing order
FileNames(dir) == [i \in DOMAIN fs.files[dir] |-> fs.files[dir][i].name]

\* the content of the file at a path, once decoded
FileAt(path) ==
    LET dir == dirname(path)
        fl == fs.files[dir]
    IN fl[CHOOSE i \in DOMAIN fl : fl[i].name = basename(path)]

-----------------------------------------------------------------------------
(* Schematic functions *)

\* the value of a level's "structure" before create_structure
\* a reference to a level's container: the level that holds it and what
\* it was when the reference was taken ("None" for Python's None)
NoRef == [level |-> None, kind |-> "None"]

NoStructure ==
    [kind |-> "None", name |-> None, dag |-> NoRef, parent_group |-> NoRef,
     prefix_group_id |-> FALSE, init |-> EmptyDict]

PyNone == [type |-> "None", items |-> <<>>]

RECURSIVE Flatten(_)
Flatten(ss) == IF Len(ss) = 0 THEN <<>> ELSE Head(ss) \o Flatten(Tail(ss))

\* os.walk(top), top-down: a directory, then each of its subdirectories in
\* the order the file system lists them (fs.listing), whatever their names
RECURSIVE os_walk(_)
os_walk(top) ==
    LET subdirs == SelectSeq(fs.listing, LAMBDA n : join(top, n) \in fs.dirs)
    IN <<top>> \o Flatten([i \in DOMAIN subdirs |-> os_walk(join(top, subdirs[i]))])

\* the condition of building.py lines 37-38 and 55-56
has_parent(dir, dag_dir) ==
    basename(dirname(dir)) # basename(dirname(dag_dir))

\* one entry of the dict create_schematic returns
level_record(dir, dag_dir, parsers) ==
    LET files == FileNames(dir)
    IN [name |-> basename(dir),
        parent_id |-> IF has_parent(dir, dag_dir) THEN dirname(dir) ELSE None,
        structure |-> NoStructure,
        spec_paths |->
            LET kept == SelectSeq(files, LAMBDA file :
                            /\ endswith_parser(file, parsers)
                            /\ file # METADATA_yml
                            /\ ~startswith_hidden(file))
            IN [i \in DOMAIN kept |-> join(dir, kept[i])],
        specs |-> <<>>,
        metadata_path |-> IF METADATA_yml \in Range(files)
                          THEN join(dir, METADATA_yml) ELSE None,
        metadata |-> EmptyDict,
        tasks |-> EmptyDict,
        dependencies |-> IF has_parent(dir, dag_dir) THEN PyList(<<>>) ELSE PyNone,
        external_dependencies |-> PyList(<<>>)]

\* create_schematic(dag_dir, parsers): the dict, as its keys in insertion
\* order and the mapping
create_schematic(dag_dir, parsers) ==
    LET keys == SelectSeq(os_walk(dag_dir), LAMBDA dir : ~startswith_hidden(basename(dir)))
    IN [keys |-> keys,
        map |-> [dir \in Range(keys) |-> level_record(dir, dag_dir, parsers)]]

\* get_level_structure(level_id, schematic), as a reference
get_level_structure(level_id) ==
    [level |-> level_id, kind |-> schematic[level_id].structure.kind]

\* get_top_level_dag(schematic): the structure of the last key of the dict
get_top_level_dag ==
    IF Len(order) > 0 THEN get_level_structure(order[Len(order)]) ELSE NoRef

-----------------------------------------------------------------------------
(* The driver: create_dag builds a GustyBuilder and then calls each method *)
(* for every level of self.levels, one pass per method.  Here a pass may  *)
(* take the levels in any order and more than once; it ends when every    *)
(* level has been handled, and an exception ends the build.               *)

PassOrder ==
    <<"parse_metadata", "check_metadata", "create_structure", "read_specs",
      "create_tasks", "create_level_dependencies", "create_task_dependencies",
      "create_task_external_dependencies", "create_level_external_dependencies",
      "create_root_dependencies", "create_leaf_tasks", "return_dag">>

built == phase # "new"

InPass(method) == phase = method /\ raised = "none"

\* the call of the current pass's method on level id has returned
Handled(id) == IF id \in Range(done) THEN done ELSE Append(done, id)

next_pass ==
    /\ raised = "none"
    /\ \E i \in 1..(Len(PassOrder) - 1) :
          /\ phase = PassOrder[i]
          /\ phase' = PassOrder[i + 1]
    /\ Range(done) = Range(levels)
    /\ done' = <<>>
    /\ UNCHANGED <<fs, airflow_version, kwargs, schematic, order, levels,
                   dag_defaults, task_group_defaults, wait_for_defaults,
                   wait_for_tasks, all_tasks, edges, next_uid, raised>>

-----------------------------------------------------------------------------
(* GustyBuilder.__init__ *)

NotDagDefaults ==
    {"task_group_defaults", "wait_for_defaults", "latest_only", "parse_hooks",
     "dag_constructors"}

\* sorted(keys, key=lambda x: x.count(os.sep), reverse=True): a stable sort,
\* so levels of equal depth keep the order of the schematic's keys
sorted_by_depth_desc(keys) ==
    LET depths == {count_sep(keys[i]) : i \in DOMAIN keys}
        maxd == IF depths = {} THEN 0 ELSE CHOOSE d \in depths : \A e \in depths : e <= d
        mind == IF depths = {} THEN 1 ELSE CHOOSE d \in depths : \A e \in depths : d <= e
    IN Flatten([j \in 1..(maxd - mind + 1) |->
                  SelectSeq(keys, LAMBDA x : count_sep(x) = maxd - j + 1)])

builder_levels(keys) ==
    LET sorted == sorted_by_depth_desc(keys)
    IN IF airflow_version <= 1
       THEN (IF Len(sorted) > 0 THEN <<sorted[1]>> ELSE <<>>)
       ELSE sorted

WaitForKeys ==
    {"poke_interval", "timeout", "retries", "mode", "soft_fail",
     "execution_date_fn", "check_existence"}

WaitForBuiltins == [poke_interval |-> 999, timeout |-> 1, retries |-> 0]

GustyBuilder_init ==
    /\ phase = "new"
    /\ raised = "none"
    /\ IF fs.dag_dir \notin fs.dirs
       THEN /\ raised' = "NonexistentDagDirError"
            /\ UNCHANGED <<phase, schematic, order, levels, dag_defaults,
                           task_group_defaults, wait_for_defaults,
                           wait_for_tasks, all_tasks>>
       ELSE LET parsers == default_parsers \cup Get(kwargs, "parse_hooks", {})
                made == create_schematic(fs.dag_dir, parsers)
            IN /\ schematic' = made.map
               /\ order' = made.keys
               /\ dag_defaults' = Without(kwargs, NotDagDefaults)
               /\ task_group_defaults' = Get(kwargs, "task_group_defaults", EmptyDict)
               /\ wait_for_defaults' =
                      Update(WaitForBuiltins,
                             Only(Get(kwargs, "wait_for_defaults", EmptyDict), WaitForKeys))
               /\ levels' = builder_levels(made.keys)
               /\ wait_for_tasks' = EmptyDict
               /\ all_tasks' = EmptyDict
               /\ phase' = PassOrder[1]
               /\ raised' = "none"
    /\ UNCHANGED <<fs, airflow_version, kwargs, done, edges, next_uid>>

-----------------------------------------------------------------------------
(* GustyBuilder.parse_metadata *)

DependencyKeys == {"dependencies", "external_dependencies"}

\* lines 283-286: the defaults of the level's kind
metadata_defaults_for(id) ==
    IF schematic[id].parent_id = None THEN dag_defaults ELSE task_group_defaults

\* resolve_default_args, were the file's default_args merged into the
\* defaults' instead of replacing them
resolve_default_args_merging(id, metadata_defaults, level_metadata) ==
    IF /\ schematic[id].parent_id = None
       /\ "default_args" \in DOMAIN metadata_defaults
       /\ "default_args" \in DOMAIN level_metadata
    THEN Update(level_metadata,
                [default_args |-> Update(metadata_defaults["default_args"],
                                         level_metadata["default_args"])])
    ELSE level_metadata

\* lines 294-306: default_args given by the defaults and by the file of a
\* root level: the file's value is attached back to the file's mapping
resolve_default_args(id, metadata_defaults, level_metadata) ==
    IF /\ schematic[id].parent_id = None
       /\ "default_args" \in DOMAIN metadata_defaults
       /\ "default_args" \in DOMAIN level_metadata
    THEN LET level_default_args == level_metadata["default_args"]
             metadata_default_args == level_default_args
         IN Update(level_metadata, [default_args |-> metadata_default_args])
    ELSE level_metadata

\* line 310: metadata_defaults.update(level_metadata)
merge_metadata(metadata_defaults, level_metadata) ==
    Update(metadata_defaults, level_metadata)

\* root_externals_ok, were the entries of the list not checked
root_externals_ok_list_only(root_externals) ==
    root_externals.type = "list"

\* lines 337-342: the two assertions on the root's default external dependencies
root_externals_ok(root_externals) ==
    /\ root_externals.type = "list"
    /\ \A i \in DOMAIN root_externals.items : root_externals.items[i].type = "dict"

\* extract_dependencies, were the level record updated with the whole
\* mapping of the file instead of its two dependency keys
extract_dependencies_unfiltered(id, level, metadata_defaults, level_metadata) ==
    [level |-> Update(level, level_metadata), raised |-> "none"]

\* lines 318-343: the level record after the dependencies are pulled out,
\* and the exception raised on the way, if any
extract_dependencies(id, level, metadata_defaults, level_metadata) ==
    LET level_dependencies == Only(level_metadata, DependencyKeys)
        metadata_default_dependencies == Only(metadata_defaults, {"external_dependencies"})
    IN IF level_dependencies # EmptyDict
       THEN [level |-> Update(level, level_dependencies), raised |-> "none"]
       ELSE IF /\ metadata_default_dependencies # EmptyDict
               /\ schematic[id].parent_id = None
               /\ "external_dependencies" \in DOMAIN metadata_default_dependencies
       THEN LET root_externals == metadata_default_dependencies["external_dependencies"]
            IN IF root_externals_ok(root_externals)
               THEN [level |-> Update(level, [external_dependencies |-> root_externals]),
                     raised |-> "none"]
               ELSE [level |-> level, raised |-> "AssertionError"]
       ELSE [level |-> level, raised |-> "none"]

\* the whole method: the level record it leaves and what it raises
parse_metadata_outcome(id) ==
    LET defaults == metadata_defaults_for(id)
        level_metadata_path == schematic[id].metadata_path
        exists == level_metadata_path # None
        doc == FileAt(level_metadata_path).doc
    IN IF exists /\ doc.kind = "undecodable"
       THEN [level |-> schematic[id], raised |-> "YAMLError"]
       ELSE IF exists /\ doc.kind = "empty"
       THEN [level |-> schematic[id],
             raised |-> IF schematic[id].parent_id = None /\ "default_args" \in DOMAIN defaults
                        THEN "AttributeError" ELSE "TypeError"]
       ELSE LET level_metadata ==
                    IF exists THEN resolve_default_args(id, defaults, doc.map)
                    ELSE EmptyDict
                metadata_defaults == merge_metadata(defaults, level_metadata)
                level == [schematic[id] EXCEPT !.metadata = metadata_defaults]
            IN extract_dependencies(id, level, metadata_defaults, level_metadata)

parse_metadata(id) ==
    /\ InPass("parse_metadata")
    /\ id \in Range(levels)
    /\ LET out == parse_metadata_outcome(id)
       IN /\ schematic' = [schematic EXCEPT ![id] = out.level]
          /\ raised' = out.raised
          /\ done' = IF out.raised = "none" THEN Handled(id) ELSE done
    /\ UNCHANGED <<fs, airflow_version, kwargs, phase, order, levels,
                   dag_defaults, task_group_defaults, wait_for_defaults,
                   wait_for_tasks, all_tasks, edges, next_uid>>

check_metadata(id) ==
    /\ InPass("check_metadata")
    /\ id \in Range(levels)
    /\ done' = Handled(id)
    /\ UNCHANGED <<fs, airflow_version, kwargs, phase, schematic, order, levels,
                   dag_defaults, task_group_defaults, wait_for_defaults,
                   wait_for_tasks, all_tasks, edges, next_uid, raised>>

-----------------------------------------------------------------------------
(* build_structure and GustyBuilder.create_structure *)

\* inspect.signature(DAG.__init__).parameters.keys(), as far as the keys
\* of the metadata met here go
DAG_init_parameters ==
    {"self", "dag_id", "description", "schedule", "schedule_interval",
     "start_date", "end_date", "default_args", "catchup", "tags"}

\* inspect.signature(TaskGroup.__init__).parameters.keys()
TaskGroup_init_parameters ==
    {"self", "group_id", "prefix_group_id", "parent_group", "dag", "default_args",
     "tooltip", "ui_color", "ui_fgcolor", "add_suffix_on_collision"}

\* build_structure(schematic, parent_id, name, metadata): the container,
\* and the exception raised instead, if any
build_structure(parent_id, name, metadata) ==
    IF parent_id = None
    THEN LET level_init_data == Without(metadata, DAG_init_parameters)
         IN [structure |-> [kind |-> "DAG", name |-> name, dag |-> NoRef,
                            parent_group |-> NoRef, prefix_group_id |-> FALSE,
                            init |-> level_init_data],
             raised |-> "none"]
    ELSE IF parent_id \notin DOMAIN schematic
    THEN [structure |-> NoStructure, raised |-> "KeyError"]
    ELSE IF airflow_version <= 1
    THEN [structure |-> NoStructure, raised |-> "NameError"]
    ELSE LET top_level_dag == get_top_level_dag
             parent == get_level_structure(parent_id)
             level_init_data ==
                 Without(metadata, TaskGroup_init_parameters \cup {"dag", "parent_group"})
         IN [structure |-> [kind |-> "TaskGroup", name |-> name, dag |-> top_level_dag,
                            parent_group |-> IF parent.kind = "TaskGroup" THEN parent
                                             ELSE NoRef,
                            prefix_group_id |-> TRUE,
                            init |-> level_init_data],
             raised |-> "none"]

create_structure(id) ==
    /\ InPass("create_structure")
    /\ id \in Range(levels)
    /\ LET level_schematic == schematic[id]
           out == build_structure(level_schematic.parent_id, level_schematic.name,
                                  level_schematic.metadata)
       IN /\ raised' = out.raised
          /\ schematic' = IF out.raised = "none"
                          THEN [schematic EXCEPT ![id].structure = out.structure]
                          ELSE schematic
          /\ done' = IF out.raised = "none" THEN Handled(id) ELSE done
    /\ UNCHANGED <<fs, airflow_version, kwargs, phase, order, levels,
                   dag_defaults, task_group_defaults, wait_for_defaults,
                   wait_for_tasks, all_tasks, edges, next_uid>>

-----------------------------------------------------------------------------
(* gusty.parsing.parse and GustyBuilder.read_specs *)

PythonOperator ==
    IF airflow_version > 1 THEN "airflow.operators.python.PythonOperator"
    ELSE "airflow.operators.python_operator.PythonOperator"

\* os.path.exists(file_path)
exists(file_path) ==
    /\ dirname(file_path) \in DOMAIN fs.files
    /\ \E i \in DOMAIN fs.files[dirname(file_path)] :
          fs.files[dirname(file_path)][i].name = basename(file_path)

\* frontmatter_load(file_path)["metadata"]: the mapping of the front
\* matter, or of a file that is one YAML mapping; {} for any other file
frontmatter_metadata(file_path) ==
    LET doc == FileAt(file_path).doc
    IN IF doc.kind \in {"dict", "frontmatter"} THEN doc.map ELSE EmptyDict

\* frontmatter_load(file_path)["content"] is not empty: the text after the
\* front matter, or the whole text of a readable file that is no mapping
frontmatter_has_content(file_path) ==
    FileAt(file_path).doc.kind \in {"frontmatter", "undecodable"}

\* parse_generic: the file's mapping, or {} when it holds none
parse_generic(file_path) ==
    LET doc == FileAt(file_path).doc
    IN IF doc.kind = "dict" THEN doc.map
       ELSE IF doc.kind = "empty" THEN EmptyDict
       ELSE frontmatter_metadata(file_path)

\* parse_ipynb: the mapping of the notebook's first YAML cell; {} when
\* the file is no notebook or holds no such cell
parse_ipynb(file_path) ==
    LET doc == FileAt(file_path).doc
    IN IF doc.kind = "frontmatter" THEN doc.map ELSE EmptyDict

\* parse_sql: the front matter, and the text after it under "sql"
parse_sql(file_path) ==
    LET metadata == frontmatter_metadata(file_path)
    IN IF frontmatter_has_content(file_path)
       THEN Update(metadata, [sql |-> "content"])
       ELSE metadata

\* parse_py: the operator and the callable's path, then the front matter
parse_py(file_path) ==
    LET spec == [operator |-> PythonOperator, python_callable_path |-> file_path]
    IN Update(spec, frontmatter_metadata(file_path))

\* os.path.splitext(file_path)[0], then os.path.basename: the file's name
\* without its extension
task_id_of(file_path) ==
    LET file == basename(file_path)
    IN SubSeq(file, 1, Len(file) - 1)

\* parse, were it to leave file_path to the parser
parse_without_file_path(file_path) ==
    LET extension == basename(file_path)[Len(basename(file_path))]
        yaml_file == IF extension = ".py" THEN parse_py(file_path)
                     ELSE parse_generic(file_path)
    IN Update(yaml_file, [task_id |-> task_id_of(file_path)])

\* parse(file_path, parse_dict, loader); the extensions of the registry
\* are their own lower case but for ".Rmd", which gets the default parser
parse(file_path) ==
    LET extension == basename(file_path)[Len(basename(file_path))]
        minimal == [task_id |-> task_id_of(file_path), file_path |-> file_path]
        yaml_file == IF extension = ".py" THEN parse_py(file_path)
                     ELSE IF extension = ".ipynb" THEN parse_ipynb(file_path)
                     ELSE IF extension = ".sql" THEN parse_sql(file_path)
                     ELSE parse_generic(file_path)
    IN IF ~exists(file_path) THEN minimal
       ELSE Update(yaml_file, minimal)

NotInherited ==
    {"dependencies", "external_dependencies", "suffix_group_id", "prefix_group_id"}

\* with_metadata_defaults, were the metadata to win over the spec's keys
with_metadata_overriding(spec, level_metadata) ==
    Update(spec, Without(level_metadata, NotInherited))

\* lines 383-385: metadata defaults added to a spec
with_metadata_defaults(spec, level_metadata) ==
    Update(Without(level_metadata, NotInherited), spec)

\* "{y}_{x}".format(x=level_name, y=task_id)
format_y_x(level_name, task_id) == task_id \o <<"_">> \o level_name

\* "{x}_{y}".format(x=level_name, y=task_id)
format_x_y(level_name, task_id) == level_name \o <<"_">> \o task_id

\* lines 388-404: the task_id of a spec of the level after rewriting
rewritten_task_id(id, task_id) ==
    LET level_structure == schematic[id].structure
        level_name == schematic[id].name
        add_suffix == Get(schematic[id].metadata, "suffix_group_id", FALSE)
    IN IF airflow_version > 1 /\ level_structure.kind = "TaskGroup"
       THEN IF level_structure.prefix_group_id /\ ~add_suffix
            THEN format_y_x(level_name, task_id)
            ELSE IF add_suffix THEN format_x_y(level_name, task_id)
            ELSE task_id
       ELSE task_id

\* level_specs_of, were a second run to rewrite the records it stored
\* before instead of the loader's output
level_specs_of_stored(id) ==
    LET level_metadata == schematic[id].metadata
        level_spec_paths == schematic[id].spec_paths
        stored == schematic[id].specs
    IN [i \in DOMAIN level_spec_paths |->
          LET spec == IF Len(stored) = Len(level_spec_paths) THEN stored[i]
                      ELSE with_metadata_defaults(parse(level_spec_paths[i]), level_metadata)
          IN [spec EXCEPT !["task_id"] = rewritten_task_id(id, spec["task_id"])]]

\* the list read_specs stores in the level's "specs"
level_specs_of(id) ==
    LET level_metadata == schematic[id].metadata
        level_spec_paths == schematic[id].spec_paths
    IN [i \in DOMAIN level_spec_paths |->
          LET spec == with_metadata_defaults(parse(level_spec_paths[i]), level_metadata)
          IN [spec EXCEPT !["task_id"] = rewritten_task_id(id, spec["task_id"])]]

read_specs(id) ==
    /\ InPass("read_specs")
    /\ id \in Range(levels)
    /\ schematic' = [schematic EXCEPT ![id].specs = level_specs_of(id)]
    /\ done' = Handled(id)
    /\ UNCHANGED <<fs, airflow_version, kwargs, phase, order, levels,
                   dag_defaults, task_group_defaults, wait_for_defaults,
                   wait_for_tasks, all_tasks, edges, next_uid, raised>>

-----------------------------------------------------------------------------
(* build_task and GustyBuilder.create_tasks *)

\* the most tasks one build constructs
MaxTasks == 5

DummyOperator == "airflow.operators.dummy.DummyOperator"

\* build_task(spec, level_id, schematic): the task the operator call
\* constructs; uid is the identity of the new object
build_task(spec, level_id, uid) ==
    LET level_structure == get_level_structure(level_id)
    IN [uid |-> uid,
        operator |-> Get(spec, "operator", DummyOperator),
        task_id |-> Get(spec, "task_id", <<"unnamed_task">>),
        dag |-> get_top_level_dag,
        task_group |-> IF airflow_version > 1 /\ level_structure.kind = "TaskGroup"
                       THEN level_structure ELSE NoRef]

\* lines 414-418: the loop over the first n specs of the level, as the
\* level's tasks and the global registry it leaves
RECURSIVE create_tasks_loop(_, _, _)
create_tasks_loop(id, level_specs, n) ==
    IF n = 0 THEN [level_tasks |-> EmptyDict, all_tasks |-> all_tasks]
    ELSE LET before == create_tasks_loop(id, level_specs, n - 1)
             spec == level_specs[n]
             task == build_task(spec, id, next_uid + n - 1)
             task_id == Get(spec, "task_id", <<"unnamed_task">>)
         IN [level_tasks |-> Update(before.level_tasks, (task_id :> task)),
             all_tasks |-> Update(before.all_tasks, (task_id :> task))]

create_tasks(id) ==
    /\ InPass("create_tasks")
    /\ id \in Range(levels)
    /\ LET level_specs == schematic[id].specs
           out == create_tasks_loop(id, level_specs, Len(level_specs))
       IN /\ next_uid + Len(level_specs) - 1 <= MaxTasks
          /\ next_uid' = next_uid + Len(level_specs)
          /\ all_tasks' = out.all_tasks
          /\ schematic' = [schematic EXCEPT ![id].tasks = out.level_tasks]
    /\ done' = Handled(id)
    /\ UNCHANGED <<fs, airflow_version, kwargs, phase, order, levels,
                   dag_defaults, task_group_defaults, wait_for_defaults,
                   wait_for_tasks, edges, raised>>

-----------------------------------------------------------------------------
(* Dependencies *)

create_level_dependencies(id) ==
    /\ InPass("create_level_dependencies")
    /\ id \in Range(levels)
    /\ done' = Handled(id)
    /\ UNCHANGED <<fs, airflow_version, kwargs, phase, schematic, order, levels,
                   dag_defaults, task_group_defaults, wait_for_defaults,
                   wait_for_tasks, all_tasks, edges, next_uid, raised>>

\* wire_dependencies, were the edge made from the task to its dependency
RECURSIVE wire_dependencies_reversed(_, _, _, _)
wire_dependencies_reversed(es, task, dependencies, n) ==
    IF n = 0 THEN es
    ELSE LET before == wire_dependencies_reversed(es, task, dependencies, n - 1)
             dep == dependencies[n]
         IN IF dep \in DOMAIN all_tasks
            THEN before \cup {<<task, all_tasks[dep]>>}
            ELSE before

\* lines 447-449: the edges the dependencies of one spec add to es
RECURSIVE wire_dependencies(_, _, _, _)
wire_dependencies(es, task, dependencies, n) ==
    IF n = 0 THEN es
    ELSE LET before == wire_dependencies(es, task, dependencies, n - 1)
             dep == dependencies[n]
         IN IF dep \in DOMAIN all_tasks
            THEN before \cup {<<all_tasks[dep], task>>}
            ELSE before

\* task_dependencies_loop, were each call to start from no edges instead
\* of adding to the edges made so far
RECURSIVE task_dependencies_loop_fresh(_, _)
task_dependencies_loop_fresh(id, n) ==
    IF n = 0 THEN {}
    ELSE LET before == task_dependencies_loop_fresh(id, n - 1)
             level_tasks == schematic[id].tasks
             spec == schematic[id].specs[n]
             task_id == spec["task_id"]
         IN IF task_id \in DOMAIN level_tasks
            THEN LET dependencies == Get(spec, "dependencies", PyList(<<>>)).items
                 IN wire_dependencies(before, level_tasks[task_id], dependencies,
                                      Len(dependencies))
            ELSE before

\* lines 441-449: the edges after the first n specs of the level are wired
RECURSIVE task_dependencies_loop(_, _)
task_dependencies_loop(id, n) ==
    IF n = 0 THEN edges
    ELSE LET before == task_dependencies_loop(id, n - 1)
             level_tasks == schematic[id].tasks
             spec == schematic[id].specs[n]
             task_id == spec["task_id"]
         IN IF task_id \in DOMAIN level_tasks
            THEN LET dependencies == Get(spec, "dependencies", PyList(<<>>)).items
                 IN wire_dependencies(before, level_tasks[task_id], dependencies,
                                      Len(dependencies))
            ELSE before

create_task_dependencies(id) ==
    /\ InPass("create_task_dependencies")
    /\ id \in Range(levels)
    /\ edges' = task_dependencies_loop(id, Len(schematic[id].specs))
    /\ done' = Handled(id)
    /\ UNCHANGED <<fs, airflow_version, kwargs, phase, schematic, order, levels,
                   dag_defaults, task_group_defaults, wait_for_defaults,
                   wait_for_tasks, all_tasks, next_uid, raised>>

create_task_external_dependencies(id) ==
    /\ InPass("create_task_external_dependencies")
    /\ id \in Range(levels)
    /\ done' = Handled(id)
    /\ UNCHANGED <<fs, airflow_version, kwargs, phase, schematic, order, levels,
                   dag_defaults, task_group_defaults, wait_for_defaults,
                   wait_for_tasks, all_tasks, edges, next_uid, raised>>

create_level_external_dependencies(id) ==
    /\ InPass("create_level_external_dependencies")
    /\ id \in Range(levels)
    /\ done' = Handled(id)
    /\ UNCHANGED <<fs, airflow_version, kwargs, phase, schematic, order, levels,
                   dag_defaults, task_group_defaults, wait_for_defaults,
                   wait_for_tasks, all_tasks, edges, next_uid, raised>>

\* lines 470-478: the method reads the level's metadata, parent_id and
\* external_dependencies into locals, sets a local flag and returns
create_root_dependencies(id) ==
    /\ InPass("create_root_dependencies")
    /\ id \in Range(levels)
    /\ done' = Handled(id)
    /\ UNCHANGED <<fs, airflow_version, kwargs, phase, schematic, order, levels,
                   dag_defaults, task_group_defaults, wait_for_defaults,
                   wait_for_tasks, all_tasks, edges, next_uid, raised>>

create_leaf_tasks(id) ==
    /\ InPass("create_leaf_tasks")
    /\ id \in Range(levels)
    /\ done' = Handled(id)
    /\ UNCHANGED <<fs, airflow_version, kwargs, phase, schematic, order, levels,
                   dag_defaults, task_group_defaults, wait_for_defaults,
                   wait_for_tasks, all_tasks, edges, next_uid, raised>>

-----------------------------------------------------------------------------
(* The state before GustyBuilder(dag_dir, **kwargs) is called *)

Unbuilt ==
    /\ phase = "new"
    /\ done = <<>>
    /\ schematic = EmptyDict
    /\ order = <<>>
    /\ levels = <<>>
    /\ dag_defaults = EmptyDict
    /\ task_group_defaults = EmptyDict
    /\ wait_for_defaults = EmptyDict
    /\ wait_for_tasks = EmptyDict
    /\ all_tasks = EmptyDict
    /\ edges = {}
    /\ next_uid = 1
    /\ raised = "none"

\* names of directories and files
N_dags == <<"dags">>
N_etl == <<"etl">>
N_grp == <<"grp">>
N_sub == <<"sub">>
N_tmp == <<"_", "tmp">>
N_git == <<".", "git">>

RootDir == <<N_dags, N_etl>>

Ext_other_t == ExtDict(<<"other">>, <<"t">>)
Ext_up_u == ExtDict(<<"up">>, <<"u">>)

Orderings(S) ==
    {p \in [1..Cardinality(S) -> S] : \A i, j \in DOMAIN p : i # j => p[i] # p[j]}

\* a decoded file: kind "dict" (the file is one YAML mapping), "empty" (yaml
\* gives None), "undecodable" (readable text that yaml makes no mapping
\* of), "frontmatter" (a mapping between --- lines, then a body; for a
\* notebook, a YAML cell) or "unreadable" (bytes that decode to no text)
Doc(map) == [kind |-> "dict", map |-> map]
EmptyDoc == [kind |-> "empty", map |-> EmptyDict]
Undecodable == [kind |-> "undecodable", map |-> EmptyDict]
FrontMatter(map) == [kind |-> "frontmatter", map |-> map]
Unreadable == [kind |-> "unreadable", map |-> EmptyDict]
File(name, doc) == [name |-> name, doc |-> doc]

-----------------------------------------------------------------------------
(* Spec: a whole build over small directory trees *)

GrpDir == join(RootDir, N_grp)
SubDir == join(GrpDir, N_sub)
AuxDir == join(RootDir, <<"aux">>)

T_a == <<"a">>
T_b == <<"b">>
T_c == <<"c">>
T_x == <<"x">>
T_y == <<"y">>
T_x_grp == <<"x", "_", "grp">>
T_missing == <<"missing">>

Yml(task) == task \o <<".yml">>

\* the root: sources a and c, b after a; c and grp's x wait for the same
\* task of another DAG; the root asks for the latest-only gate
RootFiles ==
    <<File(Yml(T_a), Doc([owner |-> "me"])),
      File(Yml(T_b), Doc([dependencies |-> PyList(<<T_a, T_missing>>)])),
      File(Yml(T_c), Doc([external_dependencies |-> PyList(<<Ext_other_t>>)])),
      File(METADATA_yml, Doc([latest_only |-> TRUE, owner |-> "etl"]))>>

\* a root that holds two specs and nothing else
SmallRootFiles ==
    <<File(Yml(T_a), Doc(EmptyDict)),
      File(Yml(T_b), Doc([dependencies |-> PyList(<<T_a>>)]))>>

\* further files the root may hold: a spec whose name is what grp's x is
\* renamed to, and a second file named a
RootExtras ==
    {<<>>,
     <<File(Yml(T_x_grp), Doc([dependencies |-> PyList(<<T_a>>)]))>>,
     <<File(T_a \o <<".py">>, Doc(EmptyDict))>>}

GrpFiles(metadata) ==
    <<File(Yml(T_x), Doc([dependencies |-> PyList(<<T_a>>),
                          external_dependencies |-> PyList(<<Ext_other_t>>)]))>>
        \o metadata

GrpMetadataChoices ==
    {<<>>,
     <<File(METADATA_yml, Doc([suffix_group_id |-> TRUE]))>>,
     <<File(METADATA_yml, Doc([prefix_group_id |-> FALSE, tooltip |-> "tip",
                               dependencies |-> PyList(<<T_b, T_missing>>)]))>>}

SubFiles ==
    <<File(Yml(T_y), Doc([dependencies |-> PyList(<<T_x_grp, T_b>>)]))>>

AuxFiles ==
    <<File(Yml(T_x), Doc([dependencies |-> PyList(<<T_c>>)]))>>

BuildTrees ==
    {{RootDir}, {RootDir, GrpDir}, {RootDir, GrpDir, SubDir}, {RootDir, GrpDir, AuxDir}}

BuildKwargs ==
    {EmptyDict,
     [latest_only |-> TRUE, default_args |-> [owner |-> "default"],
      task_group_defaults |-> [tooltip |-> "group"]]}

Init ==
    /\ Unbuilt
    /\ airflow_version \in {1, 2}
    /\ kwargs \in BuildKwargs
    /\ \E tree \in BuildTrees, rootfiles \in {RootFiles \o e : e \in RootExtras} \cup {SmallRootFiles},
          grpmeta \in GrpMetadataChoices,
          listing \in {<<N_grp, <<"aux">>, N_sub>>, <<<<"aux">>, N_grp, N_sub>>} :
          /\ GrpDir \notin tree => grpmeta = <<>>
          /\ AuxDir \notin tree => listing[1] = N_grp
          /\ rootfiles = SmallRootFiles => tree = {RootDir}
          /\ fs = [dag_dir |-> RootDir,
                   dirs |-> tree,
                   files |-> [d \in tree |->
                                IF d = RootDir THEN rootfiles
                                ELSE IF d = GrpDir THEN GrpFiles(grpmeta)
                                ELSE IF d = SubDir THEN SubFiles
                                ELSE AuxFiles],
                   listing |-> listing]

Next ==
    \/ GustyBuilder_init
    \/ next_pass
    \/ \E id \in DOMAIN schematic : parse_metadata(id)
    \/ \E id \in DOMAIN schematic : check_metadata(id)
    \/ \E id \in DOMAIN schematic : create_structure(id)
    \/ \E id \in DOMAIN schematic : read_specs(id)
    \/ \E id \in DOMAIN schematic : create_tasks(id)
    \/ \E id \in DOMAIN schematic : create_level_dependencies(id)
    \/ \E id \in DOMAIN schematic : create_task_dependencies(id)
    \/ \E id \in DOMAIN schematic : create_task_external_dependencies(id)
    \/ \E id \in DOMAIN schematic : create_level_external_dependencies(id)
    \/ \E id \in DOMAIN schematic : create_root_dependencies(id)
    \/ \E id \in DOMAIN schematic : create_leaf_tasks(id)

Spec == Init /\ [][Next]_vars

PassIndex(method) == CHOOSE i \in DOMAIN PassOrder : PassOrder[i] = method

\* the pass of a method has handled every level
PassDone(method) ==
    /\ built
    /\ \/ phase = method /\ Range(done) = Range(levels)
       \/ PassIndex(phase) > PassIndex(method)

\* the dependencies a spec declares
DependenciesOf(spec) == Range(Get(spec, "dependencies", PyList(<<>>)).items)

\* the edges the specs of a level declare among the registered tasks: from
\* all_tasks[d] to the level's task, for each declared d that is registered
DeclaredEdges(id) ==
    LET L == schematic[id]
        wired == {i \in DOMAIN L.specs : L.specs[i]["task_id"] \in DOMAIN L.tasks}
    IN UNION {{<<all_tasks[d], L.tasks[L.specs[i]["task_id"]]>> :
                  d \in DependenciesOf(L.specs[i]) \cap DOMAIN all_tasks} : i \in wired}

\* C4: create_task_dependencies(level) adds exactly the edges
\* all_tasks[d] -> task for the specs of the level that map to one of its
\* tasks and the identifiers d of their dependencies that are keys of the
\* global registry; unknown identifiers add nothing and raise nothing.
C4_WiresExactlyTheDeclaredEdges ==
    [][\A id \in DOMAIN schematic :
          create_task_dependencies(id) =>
              /\ edges' = edges \cup DeclaredEdges(id)
              /\ raised' = "none"]_vars

\* the root of a.yml and b.yml (dependencies [a]) wired: two tasks and
\* the one edge a -> b
C4_Witness ==
    /\ phase = "create_task_dependencies"
    /\ done = <<RootDir>>
    /\ DOMAIN all_tasks = {T_a, T_b}
    /\ edges = {<<all_tasks[T_a], all_tasks[T_b]>>}

\* C5: once every level's tasks exist, wiring the levels in any order ends
\* with the same set of edges: the edges all the levels declare.
C5_WiringOrderIndependent ==
    PassDone("create_task_dependencies") =>
        edges = UNION {DeclaredEdges(id) : id \in Range(levels)}

\* the levels wired in another order than the builder's, with an edge
\* across levels among the edges made
C5_Witness ==
    /\ phase = "create_task_dependencies"
    /\ Range(done) = Range(levels)
    /\ Len(levels) > 1
    /\ done # levels
    /\ \E e \in edges : e[1].task_group # e[2].task_group

\* the external references a spec declares
ExternalsOf(spec) == Range(Get(spec, "external_dependencies", PyList(<<>>)).items)

\* the specs of a level that map to one of its tasks
WiredSpecs(id) ==
    {i \in DOMAIN schematic[id].specs :
        schematic[id].specs[i]["task_id"] \in DOMAIN schematic[id].tasks}

\* the tasks whose spec declares the external reference ref
DependentsOn(ref) ==
    UNION {{schematic[id].tasks[schematic[id].specs[i]["task_id"]] :
               i \in {j \in WiredSpecs(id) : ref \in ExternalsOf(schematic[id].specs[j])}} :
           id \in Range(levels)}

\* the external references the specs of the levels declare
ExternalRefs ==
    UNION {UNION {ExternalsOf(schematic[id].specs[i]) : i \in WiredSpecs(id)} :
           id \in Range(levels)}

\* the placeholders of wait_for_tasks that precede a task
PlaceholdersBefore(t) ==
    {k \in DOMAIN wait_for_tasks : <<wait_for_tasks[k], t>> \in edges}

\* C1: after create_task_external_dependencies has run for every level,
\* the tasks that declare the same external reference share one placeholder
\* of wait_for_tasks, which precedes each of them, and wait_for_tasks holds
\* one placeholder per reference.
C1_OnePlaceholderPerReference ==
    PassDone("create_task_external_dependencies") =>
        /\ \A ref \in ExternalRefs :
              \E k \in DOMAIN wait_for_tasks :
                  \A t \in DependentsOn(ref) : PlaceholdersBefore(t) = {k}
        /\ Cardinality(DOMAIN wait_for_tasks) = Cardinality(ExternalRefs)

\* the id the loader gives the i-th spec file of a level
LoaderId(id, i) == parse(schematic[id].spec_paths[i])["task_id"]

\* read_specs(id) has returned
SpecsRead(id) ==
    /\ built
    /\ \/ phase = "read_specs" /\ id \in Range(done)
       \/ PassIndex(phase) > PassIndex("read_specs")

\* the level's container is a scope
HasScope(id) == schematic[id].structure.kind = "TaskGroup"

SuffixConfigured(id) == Get(schematic[id].metadata, "suffix_group_id", FALSE)

DefaultNaming(id) ==
    DOMAIN schematic[id].metadata \cap {"suffix_group_id", "prefix_group_id"} = {}

\* C2: for a level with a scope named s, however often read_specs has
\* run on it, the spec of loader id t has task_id t_s under the default
\* configuration and s_t under the suffix configuration.
C2_PrefixedExactlyOnce ==
    \A id \in DOMAIN schematic :
        SpecsRead(id) /\ HasScope(id) =>
            /\ Len(schematic[id].specs) = Len(schematic[id].spec_paths)
            /\ \A i \in DOMAIN schematic[id].specs :
                  LET t == LoaderId(id, i)
                      sname == schematic[id].name
                      final == schematic[id].specs[i]["task_id"]
                  IN /\ SuffixConfigured(id) => final = sname \o <<"_">> \o t
                     /\ DefaultNaming(id) => final = t \o <<"_">> \o sname

\* grp read under the suffix configuration and sub under the default one
C2_Witness ==
    /\ built
    /\ {GrpDir, SubDir} \subseteq DOMAIN schematic
    /\ SpecsRead(GrpDir) /\ HasScope(GrpDir) /\ SuffixConfigured(GrpDir)
    /\ SpecsRead(SubDir) /\ HasScope(SubDir) /\ DefaultNaming(SubDir)
    /\ schematic[GrpDir].specs[1]["task_id"] = <<"grp", "_", "x">>
    /\ schematic[SubDir].specs[1]["task_id"] = <<"y", "_", "sub">>

\* the final task ids of the specs of a level
FinalIds(id) == {schematic[id].specs[i]["task_id"] : i \in DOMAIN schematic[id].specs}

\* C3: create_tasks fails with DuplicateTaskError when a spec's final
\* task_id is already in all_tasks, so no call replaces an entry of
\* all_tasks with another task.
C3_DuplicateTaskFails ==
    [][/\ \A id \in DOMAIN schematic :
             create_tasks(id) /\ FinalIds(id) \cap DOMAIN all_tasks # {} =>
                 raised' = "DuplicateTaskError"
       /\ \A t \in DOMAIN all_tasks :
             t \in DOMAIN all_tasks' /\ all_tasks'[t] = all_tasks[t]]_vars

\* the latest-only gate is asked for: by the root's effective metadata,
\* or by the caller
LatestOnlyEnabled(id) ==
    \/ Get(schematic[id].metadata, "latest_only", FALSE)
    \/ Get(kwargs, "latest_only", FALSE)

SpecTasks == UNION {Range(schematic[id].tasks) : id \in DOMAIN schematic}

\* a task that no task built from a spec precedes
IsSource(t) == ~\E e \in edges : e[2] = t /\ e[1] \in SpecTasks

\* the tasks that precede some task and are built from no spec
Gates == {e[1] : e \in edges} \ (SpecTasks \cup Range(wait_for_tasks))

\* C6: after create_root_dependencies on a root level whose gate is
\* enabled there is exactly one gate task; it precedes every task of the
\* root level that has no other upstream edge and no other task.
C6_GatePrecedesTheSources ==
    \A id \in DOMAIN schematic :
        (/\ PassDone("create_root_dependencies")
         /\ schematic[id].parent_id = None
         /\ LatestOnlyEnabled(id)) =>
            \E g \in Gates :
                /\ Gates = {g}
                /\ \A t \in Range(schematic[id].tasks) :
                      <<g, t>> \in edges <=> IsSource(t)

\* C11: a spec read_specs has stored keeps the value of every key of the
\* loader's record (task_id apart, which the scope's naming rewrites), takes
\* the level's metadata value for every other key of the metadata, and
\* never takes dependencies, external_dependencies, prefix_group_id or
\* suffix_group_id from the metadata.
C11_MetadataAreDefaults ==
    \A id \in DOMAIN schematic :
        SpecsRead(id) =>
            \A i \in DOMAIN schematic[id].specs :
                LET record == parse(schematic[id].spec_paths[i])
                    metadata == schematic[id].metadata
                    spec == schematic[id].specs[i]
                    never == {"dependencies", "external_dependencies",
                              "prefix_group_id", "suffix_group_id"}
                IN /\ \A k \in DOMAIN record \ {"task_id"} :
                         k \in DOMAIN spec /\ spec[k] = record[k]
                   /\ \A k \in DOMAIN metadata \ DOMAIN record :
                         IF k \in never THEN k \notin DOMAIN spec
                         ELSE k \in DOMAIN spec /\ spec[k] = metadata[k]
                   /\ DOMAIN spec \subseteq DOMAIN record \cup DOMAIN metadata

\* the root's a keeps its own owner, b takes the metadata's, and grp's x
\* takes no naming key from grp's metadata
C11_Witness ==
    /\ built
    /\ GrpDir \in DOMAIN schematic
    /\ SpecsRead(RootDir) /\ SpecsRead(GrpDir)
    /\ schematic[RootDir].metadata["owner"] = "etl"
    /\ schematic[RootDir].specs[1]["owner"] = "me"
    /\ schematic[RootDir].specs[2]["owner"] = "etl"
    /\ "suffix_group_id" \in DOMAIN schematic[GrpDir].metadata
    /\ "suffix_group_id" \notin DOMAIN schematic[GrpDir].specs[1]

\* the levels whose tasks map holds the task
OwnersOf(task) ==
    {id \in DOMAIN schematic : task \in Range(schematic[id].tasks)}

\* C12: whatever create_tasks calls have been made, every task of a
\* level's tasks map is the task all_tasks holds under the same id, every
\* task of all_tasks is in exactly one level's tasks map, and both maps
\* hold a task under its own task_id.
C12_TaskOwnership ==
    /\ \A id \in DOMAIN schematic :
          \A t \in DOMAIN schematic[id].tasks :
              /\ schematic[id].tasks[t].task_id = t
              /\ t \in DOMAIN all_tasks
              /\ all_tasks[t] = schematic[id].tasks[t]
    /\ \A t \in DOMAIN all_tasks :
          /\ all_tasks[t].task_id = t
          /\ Cardinality(OwnersOf(all_tasks[t])) = 1

\* the identifiers a level declares as its dependencies
LevelDependenciesOf(id) ==
    IF schematic[id].dependencies.type = "list"
    THEN Range(schematic[id].dependencies.items) ELSE {}

\* C14: after create_level_dependencies has run for every level, each
\* nested level with a scope has, for every declared dependency that is in
\* all_tasks, an edge from that task to the level's scope container.
C14_LevelDependenciesWired ==
    PassDone("create_level_dependencies") =>
        \A id \in Range(levels) :
            (schematic[id].parent_id # None /\ HasScope(id)) =>
                \A d \in LevelDependenciesOf(id) \cap DOMAIN all_tasks :
                    \E e \in edges :
                        e[1] = all_tasks[d] /\ e[2] = get_level_structure(id)

\* the call on level id is the next one of a pass that takes the levels in
\* the order of self.levels
NextInLevelOrder(id) ==
    /\ Len(done) < Len(levels)
    /\ done = SubSeq(levels, 1, Len(done))
    /\ levels[Len(done) + 1] = id

\* C15: when create_structure takes the levels in the order of
\* self.levels, the parent of a nested level has its container when the
\* level's container is built, and the new scope is attached to it (stated
\* for Airflow 2, where every level is in self.levels).
C15_ParentBuiltFirst ==
    [][\A id \in DOMAIN schematic :
          (/\ create_structure(id)
           /\ NextInLevelOrder(id)
           /\ airflow_version > 1
           /\ schematic[id].parent_id # None
           /\ schematic[id].parent_id \in DOMAIN schematic) =>
              /\ schematic[schematic[id].parent_id].structure # NoStructure
              /\ raised' = "none"
              /\ schematic[schematic[id].parent_id].structure.kind = "TaskGroup" =>
                    schematic'[id].structure.parent_group
                        = get_level_structure(schematic[id].parent_id)]_vars

\* the levels whose parent_id is none
RootLevels == {id \in DOMAIN schematic : schematic[id].parent_id = None}

\* C16: for a schematic with one or more levels, get_top_level_dag is the
\* structure of the root level, and so is the dag of every task and of
\* every scope built.
C16_TopLevelDagIsTheRoot ==
    (built /\ DOMAIN schematic # {}) =>
        \E r \in RootLevels :
            /\ get_top_level_dag = get_level_structure(r)
            /\ \A t \in SpecTasks \cup Range(all_tasks) : t.dag.level = r
            /\ \A id \in DOMAIN schematic :
                  schematic[id].structure.kind = "TaskGroup" =>
                      schematic[id].structure.dag.level = r

\* C17: under Airflow 1 the level list of a builder whose schematic has at
\* least one level holds the root directory's id and nothing else.
C17_AirflowOneKeepsTheRoot ==
    (built /\ airflow_version <= 1 /\ DOMAIN schematic # {}) =>
        /\ levels = <<fs.dag_dir>>
        /\ schematic[fs.dag_dir].parent_id = None

\* the level's metadata sets prefix_group_id to false
PrefixDisabled(id) == ~Get(schematic[id].metadata, "prefix_group_id", TRUE)

\* C18: a nested scope whose metadata sets prefix_group_id to false and
\* does not enable suffix_group_id has prefixing disabled, and the specs
\* read_specs stores for it keep the loader's id; when suffix_group_id is
\* enabled the specs have the suffix form s_t.
C18_RewritingOnlyWhenConfigured ==
    \A id \in DOMAIN schematic :
        (schematic[id].parent_id # None /\ HasScope(id)) =>
            /\ (PrefixDisabled(id) /\ ~SuffixConfigured(id)) =>
                  /\ ~schematic[id].structure.prefix_group_id
                  /\ SpecsRead(id) =>
                        \A i \in DOMAIN schematic[id].specs :
                            schematic[id].specs[i]["task_id"] = LoaderId(id, i)
            /\ (SuffixConfigured(id) /\ SpecsRead(id)) =>
                  \A i \in DOMAIN schematic[id].specs :
                      schematic[id].specs[i]["task_id"]
                          = schematic[id].name \o <<"_">> \o LoaderId(id, i)

-----------------------------------------------------------------------------
(* SpecSchematic: create_schematic over directory trees *)

\* directory names met below the root: a plain one, two hidden ones, and
\* the name of the directory that contains the root
SchematicNames == {N_grp, N_tmp, N_git, N_dags}

\* the directories a tree may hold below its root
SchematicDirs ==
    {join(RootDir, n) : n \in SchematicNames}
        \cup {join(join(RootDir, n), m) : n \in {N_grp, N_tmp, N_dags}, m \in {N_grp, N_git}}

SchematicTrees ==
    {{RootDir} \cup S : S \in {T \in SUBSET SchematicDirs :
                                  \A d \in T : dirname(d) = RootDir \/ dirname(d) \in T}}

\* what every directory of these trees holds
SchematicFiles ==
    <<File(<<"a", ".yml">>, Doc(EmptyDict)),
      File(METADATA_yml, Doc(EmptyDict)),
      File(<<"_", "b", ".yml">>, Doc(EmptyDict)),
      File(<<"notes", ".txt">>, Doc(EmptyDict))>>

InitSchematic ==
    /\ Unbuilt
    /\ airflow_version \in {1, 2}
    /\ kwargs = EmptyDict
    /\ \E tree \in SchematicTrees \cup {{}}, listing \in Orderings({N_grp, N_git, N_dags}) :
          fs = [dag_dir |-> RootDir,
                dirs |-> tree,
                files |-> [d \in tree |-> SchematicFiles],
                listing |-> <<N_tmp>> \o listing]

NextSchematic == GustyBuilder_init

SpecSchematic == InitSchematic /\ [][NextSchematic]_vars

\* a directory of the tree none of whose components from the root down is hidden
Visible(dir) ==
    /\ dir \in fs.dirs
    /\ \A i \in Len(fs.dag_dir)..Len(dir) : ~startswith_hidden(dir[i])

\* C7: the schematic has exactly one level per non-hidden directory, the
\* root included; a hidden directory and everything beneath it is no level.
C7_LevelsAreTheVisibleDirs ==
    built => DOMAIN schematic = {d \in fs.dirs : Visible(d)}

\* the level reached from level l by following parent_id k times (None
\* when the chain leaves the schematic or ends before that)
RECURSIVE Ancestor(_, _)
Ancestor(l, k) ==
    IF k = 0 THEN l
    ELSE IF l \notin DOMAIN schematic THEN None
    ELSE Ancestor(schematic[l].parent_id, k - 1)

Depth(l) == Len(l) - Len(fs.dag_dir)

\* C8: parent_id is none for the root and only for the root; every other
\* level's parent_id is its immediate parent directory, itself a level; the
\* chain reaches the root in exactly depth steps.  Stated for the levels of
\* visible directories, the ones C7 says the schematic holds.
C8_ParentChainReachesRoot ==
    built =>
        \A l \in DOMAIN schematic :
            Visible(l) =>
                /\ (schematic[l].parent_id = None) <=> (l = fs.dag_dir)
                /\ l # fs.dag_dir =>
                       /\ schematic[l].parent_id = dirname(l)
                       /\ schematic[l].parent_id \in DOMAIN schematic
                /\ Ancestor(l, Depth(l)) = fs.dag_dir
                /\ \A k \in 0..(Depth(l) - 1) : Ancestor(l, k) # fs.dag_dir

-----------------------------------------------------------------------------
(* SpecMetadata: parse_metadata over defaults and METADATA.yml contents *)

\* what the caller may pass as DAG defaults
DagDefaultsChoices ==
    {Update(Only([default_args |-> [owner |-> "default", retries |-> "3"],
                  schedule |-> "daily"], K), E) :
        K \in SUBSET {"default_args", "schedule"},
        E \in {EmptyDict,
               [external_dependencies |-> PyList(<<Ext_up_u>>)],
               [external_dependencies |-> PyList(<<Ext_up_u, ExtStr(<<"up">>)>>)],
               [external_dependencies |-> PyDict(Ext_up_u)]}}

TaskGroupDefaultsChoices ==
    {EmptyDict,
     [default_args |-> [owner |-> "group", retries |-> "3"], tooltip |-> "tip",
      external_dependencies |-> PyList(<<Ext_up_u>>)]}

KwargsChoices ==
    {Update(d, t) :
        d \in DagDefaultsChoices,
        t \in {EmptyDict} \cup {[task_group_defaults |-> g, latest_only |-> TRUE] :
                                   g \in TaskGroupDefaultsChoices}}

MetadataFull ==
    [default_args |-> [owner |-> "file"],
     schedule |-> "hourly",
     dependencies |-> PyList(<< <<"a">> >>),
     external_dependencies |-> PyList(<<Ext_other_t>>)]

\* METADATA.yml as decoded, or no such file (the empty sequence of files)
MetadataFileChoices ==
    {<<>>, <<File(METADATA_yml, EmptyDoc)>>, <<File(METADATA_yml, Undecodable)>>}
        \cup {<<File(METADATA_yml, Doc(Only(MetadataFull, K)))>> :
                K \in {{}, {"default_args"}, {"schedule"}, {"dependencies"},
                        {"external_dependencies"}, {"default_args", "schedule"},
                        DOMAIN MetadataFull}}

MetadataTrees ==
    {{RootDir},
     {RootDir, join(RootDir, N_grp)},
     {RootDir, join(RootDir, N_dags), join(join(RootDir, N_dags), N_sub)}}

InitMetadata ==
    /\ Unbuilt
    /\ airflow_version = 2
    /\ kwargs \in KwargsChoices
    /\ \E tree \in MetadataTrees, rootfiles \in MetadataFileChoices,
          subfiles \in MetadataFileChoices :
          fs = [dag_dir |-> RootDir,
                dirs |-> tree,
                files |-> [d \in tree |->
                             IF d = RootDir THEN rootfiles
                             ELSE IF Len(d) = Len(RootDir) + 1 /\ tree # {RootDir, join(RootDir, N_grp)}
                             THEN <<>> ELSE subfiles],
                listing |-> <<N_grp, N_dags, N_sub>>]

NextMetadata ==
    \/ GustyBuilder_init
    \/ \E id \in DOMAIN schematic : parse_metadata(id)

SpecMetadata == InitMetadata /\ [][NextMetadata]_vars

\* the mapping decoded from a level's METADATA.yml, empty without the file
FileMetadata(id) ==
    IF schematic[id].metadata_path = None THEN EmptyDict
    ELSE FileAt(schematic[id].metadata_path).doc.map

\* the defaults of a level's kind; the root level is the level whose
\* parent_id is none
KindDefaults(id) ==
    IF schematic[id].parent_id = None THEN dag_defaults ELSE task_group_defaults

\* parse_metadata(id) has returned normally
Resolved(id) == phase = "parse_metadata" /\ id \in Range(done)

\* C9: the effective metadata of a resolved level is the defaults of its kind
\* overridden key by key by the file's mapping; default_args of the file
\* replaces the defaults' default_args wholesale; without a file it is the
\* defaults.
C9_MetadataIsDefaultsOverriddenByFile ==
    \A id \in DOMAIN schematic :
        Resolved(id) =>
            LET D == KindDefaults(id)
                F == FileMetadata(id)
                M == schematic[id].metadata
            IN /\ DOMAIN M = DOMAIN D \cup DOMAIN F
               /\ \A k \in DOMAIN M : M[k] = IF k \in DOMAIN F THEN F[k] ELSE D[k]
               /\ schematic[id].metadata_path = None => M = D

\* a root level resolved with default_args in the defaults and in its file,
\* the defaults' default_args holding a key the file's does not
C9_Witness ==
    \E id \in DOMAIN schematic :
        /\ Resolved(id)
        /\ schematic[id].parent_id = None
        /\ "default_args" \in DOMAIN dag_defaults \cap DOMAIN FileMetadata(id)
        /\ DOMAIN dag_defaults["default_args"] \ DOMAIN FileMetadata(id)["default_args"] # {}
        /\ "schedule" \in DOMAIN dag_defaults \ DOMAIN FileMetadata(id)

\* the dependencies fields of a level as create_schematic leaves them
InitialDependencies(id) ==
    [dependencies |-> IF schematic[id].parent_id = None THEN PyNone ELSE PyList(<<>>),
     external_dependencies |-> PyList(<<>>)]

IsMapping(entry) == entry.type = "dict"

\* the level takes external_dependencies from the defaults: the file
\* declares neither list, the level is a root level, the defaults have one
AdoptsDefault(id) ==
    /\ DOMAIN FileMetadata(id) \cap DependencyKeys = {}
    /\ schematic[id].parent_id = None
    /\ "external_dependencies" \in DOMAIN dag_defaults

\* C10: a resolved level whose file declares dependencies and/or
\* external_dependencies has exactly the file's values and adopts no
\* default; otherwise a root level adopts the defaults' external_dependencies,
\* which fails unless it is a list of mappings; a nested level adopts none.
C10_DependencyExtraction ==
    /\ \A id \in DOMAIN schematic :
          Resolved(id) =>
              LET F == FileMetadata(id)
                  L == schematic[id]
                  I == InitialDependencies(id)
              IN /\ DOMAIN F \cap DependencyKeys # {} =>
                        \A k \in DependencyKeys :
                            L[k] = IF k \in DOMAIN F THEN F[k] ELSE I[k]
                 /\ AdoptsDefault(id) =>
                        /\ L.external_dependencies = dag_defaults["external_dependencies"]
                        /\ L.dependencies = I.dependencies
                        /\ \A i \in DOMAIN L.external_dependencies.items :
                               IsMapping(L.external_dependencies.items[i])
                 /\ DOMAIN F \cap DependencyKeys = {} /\ ~AdoptsDefault(id) =>
                        \A k \in DependencyKeys : L[k] = I[k]
    /\ raised = "AssertionError" =>
          \E id \in DOMAIN schematic :
              /\ AdoptsDefault(id)
              /\ LET E == dag_defaults["external_dependencies"]
                 IN E.type # "list" \/ \E i \in DOMAIN E.items : ~IsMapping(E.items[i])

\* the root's default external_dependencies hold an entry that is no
\* mapping, and resolving the root has failed
C10_Witness ==
    /\ raised = "AssertionError"
    /\ "external_dependencies" \in DOMAIN dag_defaults
    /\ dag_defaults["external_dependencies"].type = "list"
    /\ \E i \in DOMAIN dag_defaults["external_dependencies"].items :
          ~IsMapping(dag_defaults["external_dependencies"].items[i])

\* the fields of a level record parse_metadata may assign
ParseMetadataWrites == {"metadata", "dependencies", "external_dependencies"}

\* C19: a call parse_metadata(id) leaves dag_defaults, task_group_defaults,
\* the record of every other level and every field of the level's record
\* but metadata, dependencies and external_dependencies as they were, and
\* adds no field; resolving a level again, after any others, gives it the
\* metadata it had.
C19_ParseMetadataFrame ==
    [][\A id \in DOMAIN schematic :
          parse_metadata(id) =>
              /\ dag_defaults' = dag_defaults
              /\ task_group_defaults' = task_group_defaults
              /\ DOMAIN schematic' = DOMAIN schematic
              /\ \A other \in DOMAIN schematic \ {id} :
                    schematic'[other] = schematic[other]
              /\ DOMAIN schematic'[id] = DOMAIN schematic[id]
              /\ \A f \in DOMAIN schematic[id] \ ParseMetadataWrites :
                    schematic'[id][f] = schematic[id][f]
              /\ (id \in Range(done) /\ raised' = "none") =>
                    schematic'[id].metadata = schematic[id].metadata]_vars

\* two levels resolved, the nested one first, each with metadata from its
\* own defaults and file
C19_Witness ==
    /\ phase = "parse_metadata"
    /\ raised = "none"
    /\ Len(done) = 2
    /\ schematic[done[1]].parent_id # None
    /\ schematic[done[2]].parent_id = None
    /\ schematic[done[1]].metadata # EmptyDict
    /\ schematic[done[2]].metadata # schematic[done[1]].metadata
    /\ schematic[done[1]].dependencies = PyList(<< <<"a">> >>)

-----------------------------------------------------------------------------
(* SpecParse: the loader over one directory of files of every extension *)

ParseDocs ==
    {Doc([task_id |-> <<"custom">>, retries |-> 1]),
     FrontMatter([file_path |-> <<<<"elsewhere">>>>, retries |-> 2]),
     EmptyDoc, Undecodable, Unreadable}

InitParse ==
    /\ Unbuilt
    /\ airflow_version \in {1, 2}
    /\ kwargs = EmptyDict
    /\ \E e1, e2 \in default_parsers, d1, d2 \in ParseDocs :
          fs = [dag_dir |-> RootDir,
                dirs |-> {RootDir},
                files |-> [d \in {RootDir} |->
                             <<File(T_a \o <<e1>>, d1), File(T_b \o <<e2>>, d2)>>],
                listing |-> <<>>]

NextParse ==
    \/ GustyBuilder_init
    \/ next_pass
    \/ \E id \in DOMAIN schematic : parse_metadata(id)
    \/ \E id \in DOMAIN schematic : check_metadata(id)
    \/ \E id \in DOMAIN schematic : create_structure(id)
    \/ \E id \in DOMAIN schematic : read_specs(id)

SpecParse == InitParse /\ [][NextParse]_vars

\* the extension of a path
ExtensionOf(path) == basename(path)[Len(basename(path))]

\* the file's base name without its extension
StemOf(path) == SubSeq(basename(path), 1, Len(basename(path)) - 1)

\* the file's content cannot be decoded
CannotDecode(path) == FileAt(path).doc.kind \in {"undecodable", "unreadable"}

\* the keys a parser sets whatever the file holds
ParserKeys(path) ==
    IF ExtensionOf(path) = ".py" THEN {"operator", "python_callable_path"}
    ELSE IF ExtensionOf(path) = ".sql" /\ FileAt(path).doc.kind = "undecodable"
    THEN {"sql"}
    ELSE {}

\* C13: read_specs, which calls parse on each file of the level, raises
\* nothing; every record has task_id, the file's base name whatever the
\* file says, and file_path, the path; the record of a file that cannot be
\* decoded has these two keys and the keys its parser sets for every file
\* (operator and python_callable_path for .py, sql for a readable .sql).
C13_ParseFailsClosed ==
    (built /\ phase = "read_specs") =>
        /\ raised = "none"
        /\ \A id \in Range(done) :
              \A i \in DOMAIN schematic[id].specs :
                  LET path == schematic[id].spec_paths[i]
                      record == schematic[id].specs[i]
                  IN /\ {"task_id", "file_path"} \subseteq DOMAIN record
                     /\ record["task_id"] = StemOf(path)
                     /\ record["file_path"] = path
                     /\ CannotDecode(path) =>
                           DOMAIN record = {"task_id", "file_path"} \cup ParserKeys(path)

\* a.py cannot be decoded and keeps the parser's keys; b.yml names
\* another task_id and gets the file's
C13_Witness ==
    /\ built /\ phase = "read_specs" /\ done = <<RootDir>>
    /\ Len(schematic[RootDir].specs) = 2
    /\ ExtensionOf(schematic[RootDir].spec_paths[1]) = ".py"
    /\ CannotDecode(schematic[RootDir].spec_paths[1])
    /\ DOMAIN schematic[RootDir].specs[1] =
           {"task_id", "file_path", "operator", "python_callable_path"}
    /\ ExtensionOf(schematic[RootDir].spec_paths[2]) = ".yml"
    /\ FileAt(schematic[RootDir].spec_paths[2]).doc = Doc([task_id |-> <<"custom">>, retries |-> 1])
    /\ schematic[RootDir].specs[2]["task_id"] = T_b

\* C13 as stated: the record of a file that cannot be decoded has only
\* task_id and file_path, for every supported extension, and task_id is the
\* file's base name when the file names none.
C13_OnlyTaskIdAndFilePath ==
    (built /\ phase = "read_specs") =>
        /\ raised = "none"
        /\ \A id \in Range(done) :
              \A i \in DOMAIN schematic[id].specs :
                  LET path == schematic[id].spec_paths[i]
                      record == schematic[id].specs[i]
                  IN /\ {"task_id", "file_path"} \subseteq DOMAIN record
                     /\ "task_id" \notin DOMAIN FileAt(path).doc.map =>
                           record["task_id"] = StemOf(path)
                     /\ CannotDecode(path) =>
                           DOMAIN record = {"task_id", "file_path"}

====
